---- MODULE Spec2Model ----
(***************************************************************************)
(* Model of CalculatorApp/calculator.py: the PeriodAmounts value type and  *)
(* the memoizing TakeHomeCalculator.                                       *)
(*                                                                         *)
(* Numbers.  The program computes with Python floats.  A number is         *)
(* modelled as an exact fraction [n |-> numerator, d |-> denominator] in   *)
(* lowest terms with d > 0, so that equal numbers are equal records;       *)
(* d = 0 encodes the three non-finite floats: 1/0 is float('inf'), -1/0 is *)
(* -inf and 0/0 is NaN.  Binary rounding of floats is not modelled: every  *)
(* arithmetic result is the exact one.                                     *)
(***************************************************************************)
EXTENDS Integers, Sequences, FiniteSets, TLC

VARIABLES
    self,      \* the TakeHomeCalculator instance: user and the memo fields
    results,   \* the mapping returned by the latest get_results, or None
    raised,    \* the exception the latest call on the calculator propagated
    pa_args,   \* keyword arguments of the latest PeriodAmounts(...) call
    pa,        \* the PeriodAmounts object that call built, None if it raised
    pa_raised, \* the exception that call raised, or None
    pa_read,   \* the latest property read on pa: [prop, value], or None
    threads    \* the calculate_all calls running on self at once, or None

vars == <<self, results, raised, pa_args, pa, pa_raised, pa_read, threads>>

\* Python's None (a record, so that it compares with numbers and objects).
None == [none |-> TRUE]

------------------------------------------------------------------------------
(* Python numbers *)

Abs(x) == IF x < 0 THEN -x ELSE x

RECURSIVE GCD(_, _)
GCD(a, b) == IF b = 0 THEN a ELSE GCD(b, a % b)

\* The fraction n/d (d > 0) in lowest terms.
Q(n, d) == LET g == GCD(Abs(n), d) IN [n |-> n \div g, d |-> d \div g]

\* The integer n.
I(n) == [n |-> n, d |-> 1]

Inf == [n |-> 1, d |-> 0]

NegInf == [n |-> -1, d |-> 0]

NaN == [n |-> 0, d |-> 0]

IsFinite(x) == x.d # 0

IsNaN(x) == x.d = 0 /\ x.n = 0

Sign(x) == IF x.n > 0 THEN 1 ELSE IF x.n < 0 THEN -1 ELSE 0

\* -x
Neg(x) == [n |-> -x.n, d |-> x.d]

\* x + y
Add(x, y) ==
    IF IsNaN(x) \/ IsNaN(y) THEN NaN
    ELSE IF ~IsFinite(x) /\ ~IsFinite(y) THEN (IF x = y THEN x ELSE NaN)
    ELSE IF ~IsFinite(x) THEN x
    ELSE IF ~IsFinite(y) THEN y
    ELSE LET l == (x.d \div GCD(x.d, y.d)) * y.d
         IN  Q(x.n * (l \div x.d) + y.n * (l \div y.d), l)

\* x - y
Sub(x, y) == Add(x, Neg(y))

\* x * y
Mul(x, y) ==
    IF IsNaN(x) \/ IsNaN(y) THEN NaN
    ELSE IF ~IsFinite(x) \/ ~IsFinite(y)
         THEN (IF Sign(x) * Sign(y) = 0 THEN NaN
               ELSE [n |-> Sign(x) * Sign(y), d |-> 0])
    ELSE LET g1 == GCD(Abs(x.n), y.d)
             g2 == GCD(Abs(y.n), x.d)
         IN  IF x.n = 0 \/ y.n = 0 THEN I(0)
             ELSE [n |-> (x.n \div g1) * (y.n \div g2),
                   d |-> (x.d \div g2) * (y.d \div g1)]

\* x / y for a finite y other than 0 (no division of the program has a zero
\* or non-finite divisor: the divisors are 2, 12, 100 and weeks_per_year).
Div(x, y) == Mul(x, [n |-> Sign(y) * y.d, d |-> Abs(y.n)])

\* x < y; False when either is NaN.
Lt(x, y) ==
    IF IsNaN(x) \/ IsNaN(y) THEN FALSE
    ELSE IF ~IsFinite(x) \/ ~IsFinite(y)
         THEN (IF IsFinite(x) THEN y = Inf
               ELSE IF IsFinite(y) THEN x = NegInf
               ELSE x = NegInf /\ y = Inf)
    ELSE LET l == (x.d \div GCD(x.d, y.d)) * y.d
         IN  x.n * (l \div x.d) < y.n * (l \div y.d)

\* x > y
Gt(x, y) == Lt(y, x)

\* x <= y; False when either is NaN.
Le(x, y) == ~IsNaN(x) /\ ~IsNaN(y) /\ ~Lt(y, x)

\* x >= y
Ge(x, y) == Le(y, x)

\* Python's max(x, y): the first argument unless the second is greater.
PyMax(x, y) == IF Gt(y, x) THEN y ELSE x

------------------------------------------------------------------------------
(* Global constants / configuration *)

PERSONAL_ALLOWANCE_DEFAULT == 12570

PERSONAL_ALLOWANCE_TAPER_THRESHOLD == 100000

\* (upper_limit, tax_rate), in ascending order; the last band is unbounded.
TAX_BANDS ==
    << [upper_limit |-> I(50270),  rate |-> Q(20, 100)],
       [upper_limit |-> I(125140), rate |-> Q(40, 100)],
       [upper_limit |-> Inf,       rate |-> Q(45, 100)] >>

NI_THRESHOLDS ==
    [LOWER_MONTHLY |-> I(1048), UPPER_MONTHLY |-> I(4189),
     MAIN_RATE |-> Q(8, 100), UPPER_RATE |-> Q(2, 100)]

STUDENT_LOAN_PLANS ==
    ("Plan 2" :> [rate |-> Q(9, 100), threshold |-> I(27295)])
    @@ ("No Plan" :> [rate |-> I(0), threshold |-> Inf])

\* The default of PeriodAmounts' weeks_per_year parameter, 52.1429.
WEEKS_PER_YEAR == Q(521429, 10000)

\* raise ValueError(message); a message is kept by its fixed leading text,
\* without the backquotes around the parameter names.
ValueError(message) == [type |-> "ValueError", message |-> message]

ExactlyOneMessage == "Exactly one of annual, monthly, or weekly must be provided."

UnsupportedPlanMessage == "Unsupported student loan plan"

------------------------------------------------------------------------------
(* class PeriodAmounts *)

\* PeriodAmounts.__init__ refusing only a call with no amount at all; of
\* several amounts given it takes the first.
PeriodAmounts_AllowsSeveral(annual, monthly, weekly, weeks_per_year) ==
    IF annual = None /\ monthly = None /\ weekly = None
    THEN [obj |-> None, raise |-> ValueError(ExactlyOneMessage)]
    ELSE [obj |->
            [_weeks_per_year |-> weeks_per_year,
             _annual |->
                IF annual # None THEN annual
                ELSE IF monthly # None THEN Mul(monthly, I(12))
                ELSE Mul(weekly, weeks_per_year)],
          raise |-> None]

\* PeriodAmounts.__init__(annual=, monthly=, weekly=, weeks_per_year=): an
\* argument left out is None.  The outcome is the object built, or the
\* exception raised and no object.
PeriodAmounts(annual, monthly, weekly, weeks_per_year) ==
    LET given == <<annual, monthly, weekly>>
        provided_args == Cardinality({i \in 1..3 : given[i] # None})
    IN  IF provided_args # 1
        THEN [obj |-> None, raise |-> ValueError(ExactlyOneMessage)]
        ELSE [obj |->
                [_weeks_per_year |-> weeks_per_year,
                 _annual |->
                    IF annual # None THEN annual
                    ELSE IF monthly # None THEN Mul(monthly, I(12))
                    ELSE Mul(weekly, weeks_per_year)],
              raise |-> None]

\* The three calls the calculator makes, each with one keyword and the
\* default weeks_per_year.
FromAnnual(x) == PeriodAmounts(x, None, None, WEEKS_PER_YEAR)

FromMonthly(x) == PeriodAmounts(None, x, None, WEEKS_PER_YEAR)

FromWeekly(x) == PeriodAmounts(None, None, x, WEEKS_PER_YEAR)

\* The read-only properties.
annual(p) == p._annual

monthly(p) == Div(p._annual, I(12))

\* weekly dividing by the default weeks per year, not by the object's own.
weekly_DefaultWeeks(p) == Div(p._annual, WEEKS_PER_YEAR)

weekly(p) == Div(p._annual, p._weeks_per_year)

------------------------------------------------------------------------------
(* class TakeHomeCalculator *)

\* The fields that memoize a method's result, one per calculation method.
MemoFields ==
    {"_pension_contribution", "_salary_sacrifice", "_personal_allowance",
     "_taxable_income", "_tax", "_ni_contributions",
     "_student_loan_repayment", "_net_income", "_spendable_income",
     "_spendable_income_after_expenses"}

\* TakeHomeCalculator.__init__(user).  Besides the program's fields the
\* record keeps a history: computed[f] counts how many times the body of
\* "if self.f is None:" has run to the assignment of its result to f.
NewCalculator(user) ==
    [user |-> user,
     _pension_contribution |-> None,
     _salary_sacrifice |-> None,
     _personal_allowance |-> None,
     _taxable_income |-> None,
     _tax |-> None,
     _ni_contributions |-> None,
     _student_loan_repayment |-> None,
     _net_income |-> None,
     _bills |-> None,
     _total_bills |-> None,
     _spendable_income |-> None,
     _expenses |-> None,
     _total_expenses |-> None,
     _spendable_income_after_expenses |-> None,
     computed |-> [f \in MemoFields |-> 0]]

\* The outcome of a method call on calculator s: the calculator after the
\* call, and either the value returned or the exception raised.
Return(s, v) == [self |-> s, ret |-> v, raise |-> None]

Raise(s, e) == [self |-> s, ret |-> None, raise |-> e]

\* Statement sequencing: after outcome r, call method M unless r raised.
Then(r, M(_)) == IF r.raise # None THEN r ELSE M(r.self)

\* A local of the method: v is computed once and named by K's parameter.
Bind(v, K(_)) == K(v)

\* _calculate_pension_contribution without "if ... is None": it computes and
\* stores on every call.
_calculate_pension_contribution_NoMemo(s) ==
    LET annual_value ==
            Div(Mul(s.user.gross_salary,
                    s.user.pension_contribution_percentage), I(100))
    IN  Bind([s EXCEPT !.computed["_pension_contribution"] = @ + 1,
                       !._pension_contribution = FromAnnual(annual_value).obj],
             LAMBDA s1 : Return(s1, s1._pension_contribution))

_calculate_pension_contribution(s) ==
    IF s._pension_contribution = None
    THEN LET annual_value ==
                 Div(Mul(s.user.gross_salary,
                         s.user.pension_contribution_percentage), I(100))
         IN  Bind([s EXCEPT !.computed["_pension_contribution"] = @ + 1,
                                        !._pension_contribution =
                                FromAnnual(annual_value).obj],
                  LAMBDA s1 : Return(s1, s1._pension_contribution))
    ELSE Return(s, s._pension_contribution)

_calculate_salary_sacrifice(s) ==
    IF s._salary_sacrifice = None
    THEN LET monthly_value == s.user.salary_sacrifice
         IN  Bind([s EXCEPT !.computed["_salary_sacrifice"] = @ + 1,
                                        !._salary_sacrifice =
                                FromMonthly(monthly_value).obj],
                  LAMBDA s1 : Return(s1, s1._salary_sacrifice))
    ELSE Return(s, s._salary_sacrifice)

\* PersonalAllowance with the floor at 0 forgotten.
PersonalAllowance_NoFloor(gross_salary) ==
    IF Ge(gross_salary, I(PERSONAL_ALLOWANCE_TAPER_THRESHOLD))
    THEN Sub(I(PERSONAL_ALLOWANCE_DEFAULT),
             Div(Sub(gross_salary, I(PERSONAL_ALLOWANCE_TAPER_THRESHOLD)),
                 I(2)))
    ELSE I(PERSONAL_ALLOWANCE_DEFAULT)

\* The allowance for a gross salary: tapered from the threshold on, losing
\* 1 of allowance for every 2 above it, and never below 0.
PersonalAllowance(gross_salary) ==
    IF Ge(gross_salary, I(PERSONAL_ALLOWANCE_TAPER_THRESHOLD))
    THEN LET tapered_amount ==
                 Div(Sub(gross_salary, I(PERSONAL_ALLOWANCE_TAPER_THRESHOLD)),
                     I(2))
         IN  PyMax(I(0), Sub(I(PERSONAL_ALLOWANCE_DEFAULT), tapered_amount))
    ELSE I(PERSONAL_ALLOWANCE_DEFAULT)

_calculate_personal_allowance(s) ==
    IF s._personal_allowance = None
    THEN Bind([s EXCEPT !.computed["_personal_allowance"] = @ + 1,
                                        !._personal_allowance =
                           PersonalAllowance(s.user.gross_salary)],
              LAMBDA s1 : Return(s1, s1._personal_allowance))
    ELSE Return(s, s._personal_allowance)

\* TaxableIncome without the clamp.
TaxableIncome_Unclamped(gross_salary, pre_tax_deductions, personal_allowance) ==
    Sub(Sub(gross_salary, pre_tax_deductions), personal_allowance)

\* gross_salary - pre_tax_deductions - personal_allowance, clamped at 0.
TaxableIncome(gross_salary, pre_tax_deductions, personal_allowance) ==
    PyMax(I(0), Sub(Sub(gross_salary, pre_tax_deductions),
                    personal_allowance))

\* self._taxable_income first holds the raw difference, then the clamped
\* value wrapped in a PeriodAmounts; the method is one step here, so only
\* the second assignment shows.
_calculate_taxable_income(s) ==
    IF s._taxable_income = None
    THEN Bind(_calculate_pension_contribution(s), LAMBDA r1 :
         Bind(_calculate_salary_sacrifice(r1.self), LAMBDA r2 :
         Bind(_calculate_personal_allowance(r2.self), LAMBDA r3 :
         LET pre_tax_deductions == Add(annual(r1.ret), annual(r2.ret))
             taxable_income ==
                 TaxableIncome(s.user.gross_salary, pre_tax_deductions, r3.ret)
         IN  Bind([r3.self EXCEPT !.computed["_taxable_income"] = @ + 1,
                                        !._taxable_income =
                                      FromAnnual(taxable_income).obj],
                  LAMBDA s4 : Return(s4, s4._taxable_income)))))
    ELSE Return(s, s._taxable_income)

\* BandSize with the allowance not taken off the band's upper limit.
BandSize_IgnoresAllowance(upper_limit, personal_allowance, lower_limit) ==
    Sub(upper_limit, lower_limit)

\* (upper_limit - personal_allowance) - lower_limit
BandSize(upper_limit, personal_allowance, lower_limit) ==
    Sub(Sub(upper_limit, personal_allowance), lower_limit)

\* TaxLoop with "remaining -= band_size" forgotten.
RECURSIVE TaxLoop_KeepsRemaining(_, _, _, _, _)
TaxLoop_KeepsRemaining(i, remaining, annual_tax, lower_limit, personal_allowance) ==
    IF i > Len(TAX_BANDS) THEN annual_tax
    ELSE Bind(BandSize(TAX_BANDS[i].upper_limit, personal_allowance,
                       lower_limit),
              LAMBDA band_size :
                 IF Le(remaining, I(0)) THEN annual_tax
                 ELSE IF Le(remaining, band_size)
                      THEN Add(annual_tax, Mul(remaining, TAX_BANDS[i].rate))
                 ELSE TaxLoop_KeepsRemaining(
                          i + 1,
                          remaining,
                          Add(annual_tax, Mul(band_size, TAX_BANDS[i].rate)),
                          Sub(TAX_BANDS[i].upper_limit, personal_allowance),
                          personal_allowance))

\* The for loop of _calculate_tax from band i on; the result is annual_tax
\* when the loop ends (by break, or after the last band).
RECURSIVE TaxLoop(_, _, _, _, _)
TaxLoop(i, remaining, annual_tax, lower_limit, personal_allowance) ==
    IF i > Len(TAX_BANDS) THEN annual_tax
    ELSE Bind(BandSize(TAX_BANDS[i].upper_limit, personal_allowance,
                       lower_limit),
              LAMBDA band_size :
                 IF Le(remaining, I(0)) THEN annual_tax
                 ELSE IF Le(remaining, band_size)
                      THEN Add(annual_tax, Mul(remaining, TAX_BANDS[i].rate))
                 ELSE TaxLoop(i + 1,
                              Sub(remaining, band_size),
                              Add(annual_tax,
                                  Mul(band_size, TAX_BANDS[i].rate)),
                              Sub(TAX_BANDS[i].upper_limit,
                                  personal_allowance),
                              personal_allowance))

\* _calculate_tax reading the field self._taxable_income (0 while unset)
\* where the method calls _calculate_taxable_income().
_calculate_tax_ReadsField(s) ==
    IF s._tax = None
    THEN Bind(_calculate_personal_allowance(s), LAMBDA r2 :
         LET annual_taxable_income ==
                 IF s._taxable_income = None THEN I(0)
                 ELSE annual(s._taxable_income)
             personal_allowance == r2.ret
             annual_tax == TaxLoop(1, annual_taxable_income, I(0), I(0),
                                   personal_allowance)
         IN  Bind([r2.self EXCEPT !.computed["_tax"] = @ + 1,
                                  !._tax = FromAnnual(annual_tax).obj],
                  LAMBDA s3 : Return(s3, s3._tax)))
    ELSE Return(s, s._tax)

_calculate_tax(s) ==
    IF s._tax = None
    THEN Bind(_calculate_taxable_income(s), LAMBDA r1 :
         Bind(_calculate_personal_allowance(r1.self), LAMBDA r2 :
         LET annual_taxable_income == annual(r1.ret)
             personal_allowance == r2.ret
             annual_tax == TaxLoop(1, annual_taxable_income, I(0), I(0),
                                   personal_allowance)
         IN  Bind([r2.self EXCEPT !.computed["_tax"] = @ + 1,
                                        !._tax = FromAnnual(annual_tax).obj],
                  LAMBDA s3 : Return(s3, s3._tax))))
    ELSE Return(s, s._tax)

\* NiContributions with the lower threshold itself already charged
\* (monthly_salary < lower in place of <=).
NiContributions_StrictLower(gross_salary, monthly_salary, lower, upper, main_rate, upper_rate) ==
    IF Lt(monthly_salary, lower) THEN I(0)
    ELSE IF Lt(lower, monthly_salary) /\ Le(monthly_salary, upper)
         THEN Mul(main_rate, Sub(gross_salary, Mul(I(12), lower)))
    ELSE Add(Mul(Mul(main_rate, I(12)), Sub(upper, lower)),
             Mul(upper_rate, Sub(gross_salary, Mul(I(12), upper))))

\* NiContributions without the branch for salaries up to the lower
\* threshold.
NiContributions_NoLowerBranch(gross_salary, monthly_salary, lower, upper, main_rate, upper_rate) ==
    IF Le(monthly_salary, upper)
    THEN Mul(main_rate, Sub(gross_salary, Mul(I(12), lower)))
    ELSE Add(Mul(Mul(main_rate, I(12)), Sub(upper, lower)),
             Mul(upper_rate, Sub(gross_salary, Mul(I(12), upper))))

\* The if/elif/else of _calculate_ni_contributions.
NiContributions(gross_salary, monthly_salary, lower, upper, main_rate, upper_rate) ==
    IF Le(monthly_salary, lower) THEN I(0)
    ELSE IF Lt(lower, monthly_salary) /\ Le(monthly_salary, upper)
         THEN Mul(main_rate, Sub(gross_salary, Mul(I(12), lower)))
    ELSE LET total_main == Mul(Mul(main_rate, I(12)), Sub(upper, lower))
             total_upper ==
                 Mul(upper_rate, Sub(gross_salary, Mul(I(12), upper)))
         IN  Add(total_main, total_upper)

_calculate_ni_contributions(s) ==
    IF s._ni_contributions = None
    THEN LET gross_salary == s.user.gross_salary
             annual_ni_contributions ==
                 NiContributions(gross_salary, Div(gross_salary, I(12)),
                                 NI_THRESHOLDS.LOWER_MONTHLY,
                                 NI_THRESHOLDS.UPPER_MONTHLY,
                                 NI_THRESHOLDS.MAIN_RATE,
                                 NI_THRESHOLDS.UPPER_RATE)
         IN  Bind([s EXCEPT !.computed["_ni_contributions"] = @ + 1,
                                        !._ni_contributions =
                                FromAnnual(annual_ni_contributions).obj],
                  LAMBDA s1 : Return(s1, s1._ni_contributions))
    ELSE Return(s, s._ni_contributions)

\* StudentLoanRepayment with max's arguments the other way round.
StudentLoanRepayment_MaxSwapped(rate, gross_salary, threshold) ==
    PyMax(Mul(rate, Sub(gross_salary, threshold)), I(0))

\* max(0, rate * (gross_salary - threshold))
StudentLoanRepayment(rate, gross_salary, threshold) ==
    PyMax(I(0), Mul(rate, Sub(gross_salary, threshold)))

\* _calculate_student_loan_repayment with an unknown plan taken for no
\* repayment instead of raising.
_calculate_student_loan_repayment_Lenient(s) ==
    IF s._student_loan_repayment = None
    THEN LET plan == s.user.student_loan_plan
             annual_student_loan_repayment ==
                 IF plan \notin DOMAIN STUDENT_LOAN_PLANS THEN I(0)
                 ELSE StudentLoanRepayment(STUDENT_LOAN_PLANS[plan].rate,
                                           s.user.gross_salary,
                                           STUDENT_LOAN_PLANS[plan].threshold)
         IN  Bind([s EXCEPT !.computed["_student_loan_repayment"] = @ + 1,
                                        !._student_loan_repayment =
                      FromAnnual(annual_student_loan_repayment).obj],
                  LAMBDA s1 : Return(s1, s1._student_loan_repayment))
    ELSE Return(s, s._student_loan_repayment)

_calculate_student_loan_repayment(s) ==
    IF s._student_loan_repayment = None
    THEN LET plan == s.user.student_loan_plan
         IN  IF plan \notin DOMAIN STUDENT_LOAN_PLANS
             THEN Raise(s, ValueError(UnsupportedPlanMessage))
             ELSE LET annual_student_loan_repayment ==
                          StudentLoanRepayment(STUDENT_LOAN_PLANS[plan].rate,
                                               s.user.gross_salary,
                                               STUDENT_LOAN_PLANS[plan].threshold)
                  IN  Bind([s EXCEPT !.computed["_student_loan_repayment"] = @ + 1,
                                        !._student_loan_repayment =
                               FromAnnual(annual_student_loan_repayment).obj],
                           LAMBDA s1 : Return(s1, s1._student_loan_repayment))
    ELSE Return(s, s._student_loan_repayment)

\* NetAnnualIncome with the student loan repayment not taken off.
NetAnnualIncome_NoStudentLoan(gross_salary, pre_tax_deductions, annual_tax, annual_ni, student_loan) ==
    Sub(Sub(Sub(gross_salary, pre_tax_deductions), annual_tax), annual_ni)

\* gross_salary - pre_tax_deductions - annual_tax - annual_ni - student_loan
NetAnnualIncome(gross_salary, pre_tax_deductions, annual_tax, annual_ni, student_loan) ==
    Sub(Sub(Sub(Sub(gross_salary, pre_tax_deductions), annual_tax),
            annual_ni), student_loan)

_calculate_net_income(s) ==
    IF s._net_income = None
    THEN Bind(_calculate_pension_contribution(s), LAMBDA r1 :
         Bind(_calculate_salary_sacrifice(r1.self), LAMBDA r2 :
         Bind(_calculate_tax(r2.self), LAMBDA r3 :
         Bind(_calculate_ni_contributions(r3.self), LAMBDA r4 :
         Bind(_calculate_student_loan_repayment(r4.self), LAMBDA r5 :
         IF r5.raise # None THEN Raise(r5.self, r5.raise)
         ELSE LET pre_tax_deductions == Add(annual(r1.ret), annual(r2.ret))
                  net_annual_income ==
                      NetAnnualIncome(s.user.gross_salary, pre_tax_deductions,
                                      annual(r3.ret), annual(r4.ret),
                                      annual(r5.ret))
              IN  Bind([r5.self EXCEPT !.computed["_net_income"] = @ + 1,
                                        !._net_income =
                                           FromAnnual(net_annual_income).obj],
                       LAMBDA s6 : Return(s6, s6._net_income)))))))
    ELSE Return(s, s._net_income)

\* SumAnnual leaving out the first amount.
RECURSIVE SumAnnual_SkipsFirst(_)
SumAnnual_SkipsFirst(ps) ==
    IF Len(ps) <= 1 THEN I(0)
    ELSE Add(SumAnnual_SkipsFirst(SubSeq(ps, 1, Len(ps) - 1)),
             annual(ps[Len(ps)]))

\* sum(p.annual for p in ps): Python's sum starts from 0 and adds in order.
RECURSIVE SumAnnual(_)
SumAnnual(ps) ==
    IF ps = <<>> THEN I(0)
    ELSE Add(SumAnnual(SubSeq(ps, 1, Len(ps) - 1)), annual(ps[Len(ps)]))

_calculate_spendable_income(s) ==
    IF s._spendable_income = None
    THEN Bind([i \in 1..Len(s.user.monthly_bills) |->
                  FromMonthly(s.user.monthly_bills[i]).obj], LAMBDA bills_pa :
         Bind(FromAnnual(SumAnnual(bills_pa)).obj, LAMBDA total_bills_pa :
         Bind(_calculate_net_income(
                  [s EXCEPT !._bills = bills_pa,
                            !._total_bills = total_bills_pa]), LAMBDA r2 :
         IF r2.raise # None THEN Raise(r2.self, r2.raise)
         ELSE LET net_income_pa == r2.ret
                  annual_spendable_income ==
                      Sub(annual(net_income_pa), annual(total_bills_pa))
              IN  Bind([r2.self EXCEPT !.computed["_spendable_income"] = @ + 1,
                                        !._spendable_income =
                           FromAnnual(annual_spendable_income).obj],
                       LAMBDA s3 : Return(s3, s3._spendable_income)))))
    ELSE Return(s, s._spendable_income)

_calculate_spendable_income_after_expenses(s) ==
    IF s._spendable_income_after_expenses = None
    THEN Bind([i \in 1..Len(s.user.weekly_expenses) |->
                  FromWeekly(s.user.weekly_expenses[i]).obj],
              LAMBDA expenses_pa :
         Bind(FromAnnual(SumAnnual(expenses_pa)).obj,
              LAMBDA total_expenses_pa :
         Bind(_calculate_spendable_income(
                  [s EXCEPT !._expenses = expenses_pa,
                            !._total_expenses = total_expenses_pa]),
              LAMBDA r2 :
         IF r2.raise # None THEN Raise(r2.self, r2.raise)
         ELSE LET spendable_income_pa == r2.ret
                  weekly_spendable_income_after_expenses ==
                      Sub(weekly(spendable_income_pa),
                          weekly(total_expenses_pa))
              IN  Bind([r2.self EXCEPT !.computed["_spendable_income_after_expenses"] = @ + 1,
                                        !._spendable_income_after_expenses =
                           FromWeekly(weekly_spendable_income_after_expenses).obj],
                       LAMBDA s3 :
                           Return(s3, s3._spendable_income_after_expenses)))))
    ELSE Return(s, s._spendable_income_after_expenses)

\* The ten calls of calculate_all, in order; it returns None.
calculate_all(s) ==
    Bind(Then(Then(Then(Then(Then(Then(Then(Then(Then(
             _calculate_pension_contribution(s),
             _calculate_salary_sacrifice),
             _calculate_personal_allowance),
             _calculate_taxable_income),
             _calculate_tax),
             _calculate_ni_contributions),
             _calculate_student_loan_repayment),
             _calculate_net_income),
             _calculate_spendable_income),
             _calculate_spendable_income_after_expenses),
         LAMBDA r : IF r.raise # None THEN Raise(r.self, r.raise)
                    ELSE Return(r.self, None))

\* The keys of the dict get_results returns.
ResultItems ==
    {"Gross Salary", "Pension Contribution", "Salary Sacrifice",
     "Personal Allowance", "Taxable Income", "Tax", "NI Contributions",
     "Student Loan Repayment", "Net Income", "Bills", "Spendable Income",
     "Expenses", "Spendable Income After Expenses"}

\* The dict literal of get_results on calculator t.
ResultsDict(t, gross_salary_pa, personal_allowance_pa) ==
    ("Gross Salary" :> gross_salary_pa)
    @@ ("Pension Contribution" :> t._pension_contribution)
    @@ ("Salary Sacrifice" :> t._salary_sacrifice)
    @@ ("Personal Allowance" :> personal_allowance_pa)
    @@ ("Taxable Income" :> t._taxable_income)
    @@ ("Tax" :> t._tax)
    @@ ("NI Contributions" :> t._ni_contributions)
    @@ ("Student Loan Repayment" :> t._student_loan_repayment)
    @@ ("Net Income" :> t._net_income)
    @@ ("Bills" :> t._total_bills)
    @@ ("Spendable Income" :> t._spendable_income)
    @@ ("Expenses" :> t._total_expenses)
    @@ ("Spendable Income After Expenses" :>
            t._spendable_income_after_expenses)

\* get_results going on to build the dict when calculate_all raised.
get_results_IgnoresFailure(s) ==
    Bind(IF s._net_income = None THEN calculate_all(s) ELSE Return(s, None),
         LAMBDA r1 :
         Bind(FromAnnual(r1.self.user.gross_salary), LAMBDA gross_salary_pa :
         Bind(FromAnnual(r1.self._personal_allowance),
              LAMBDA personal_allowance_pa :
         Return(r1.self,
                ResultsDict(r1.self, gross_salary_pa.obj,
                            personal_allowance_pa.obj)))))

get_results(s) ==
    Bind(IF s._net_income = None THEN calculate_all(s) ELSE Return(s, None),
         LAMBDA r1 :
    IF r1.raise # None THEN Raise(r1.self, r1.raise)
    ELSE Bind(FromAnnual(r1.self.user.gross_salary), LAMBDA gross_salary_pa :
         Bind(FromAnnual(r1.self._personal_allowance),
              LAMBDA personal_allowance_pa :
         IF personal_allowance_pa.raise # None
         THEN Raise(r1.self, personal_allowance_pa.raise)
         ELSE Return(r1.self,
                     ResultsDict(r1.self, gross_salary_pa.obj,
                                 personal_allowance_pa.obj)))))

------------------------------------------------------------------------------
(* The profiles *)

\* Gross salaries lie within MaxOffset pounds of a salary at which some rule
\* changes: the NI thresholds (12 x 1,048 and 12 x 4,189), the default
\* allowance, the Plan 2 threshold, the band limits, the taper's start and
\* end, and twice the first band limit (the band edge under a 50% pension).
MaxOffset == 1

PivotSalaries ==
    {0, 12570, 12576, 27295, 40000, 50268, 50270, 100000, 100540, 125140,
     150000}

GrossSalaries ==
    {I(p + o) : p \in PivotSalaries, o \in -MaxOffset..MaxOffset}
        \ {I(-o) : o \in 1..MaxOffset}

PensionPercentages == {I(0), I(5), I(50), I(100)}

\* Monthly salary sacrifice.
SalarySacrifices == {I(0), I(100), I(5000)}

PlanNames == {"Plan 2", "No Plan", "Plan X"}

\* The values of monthly_bills and of weekly_expenses, in insertion order:
\* at most MaxEntries amounts each.
MaxEntries == 2

BillAmounts == {I(500), I(120)}

ExpenseAmounts == {I(50), I(30)}

RECURSIVE Lists(_, _)
Lists(S, k) ==
    IF k = 0 THEN {<<>>}
    ELSE Lists(S, k - 1)
         \cup {Append(l, x) : l \in {m \in Lists(S, k - 1) : Len(m) = k - 1},
                              x \in S}

\* The dataclass User.
User(gross_salary, monthly_bills, weekly_expenses, pension_contribution_percentage, salary_sacrifice, student_loan_plan) ==
    [gross_salary |-> gross_salary,
     monthly_bills |-> monthly_bills,
     weekly_expenses |-> weekly_expenses,
     pension_contribution_percentage |-> pension_contribution_percentage,
     salary_sacrifice |-> salary_sacrifice,
     student_loan_plan |-> student_loan_plan]

\* Profiles without bills and expenses: every salary, pension percentage,
\* salary sacrifice and plan.
SalaryUsers ==
    {User(g, <<>>, <<>>, p, ss, plan) :
        g \in GrossSalaries, p \in PensionPercentages,
        ss \in SalarySacrifices, plan \in PlanNames}

\* Profiles with bills and expenses, on three salaries.
BudgetUsers ==
    {User(g, b, e, I(5), I(100), plan) :
        g \in {I(0), I(40000), I(150000)},
        b \in Lists(BillAmounts, MaxEntries),
        e \in Lists(ExpenseAmounts, MaxEntries),
        plan \in {"Plan 2", "Plan X"}}

Users == SalaryUsers \cup BudgetUsers

------------------------------------------------------------------------------
(* The calculator's state machine: the public methods *)

\* A fresh calculator for some profile; no PeriodAmounts call made yet.
Init ==
    /\ \E user \in Users : self = NewCalculator(user)
    /\ results = None
    /\ raised = None
    /\ pa_args = None
    /\ pa = None
    /\ pa_raised = None
    /\ pa_read = None
    /\ threads = None

\* calculator.calculate_all()
CalculateAll ==
    LET r == calculate_all(self)
    IN  /\ self' = r.self
        /\ raised' = r.raise
        /\ UNCHANGED <<results, pa_args, pa, pa_raised, pa_read, threads>>

\* results = calculator.get_results(): nothing is assigned when it raises.
GetResults ==
    LET r == get_results(self)
    IN  /\ self' = r.self
        /\ raised' = r.raise
        /\ results' = IF r.raise = None THEN r.ret ELSE results
        /\ UNCHANGED <<pa_args, pa, pa_raised, pa_read, threads>>

Next ==
    \/ CalculateAll
    \/ GetResults

Spec == Init /\ [][Next]_vars

------------------------------------------------------------------------------
(* The calculator's state machine: the calculation steps called one by one *)

StepUsers ==
    {u \in Users :
        /\ u.gross_salary \in {I(40000), I(125139)}
        /\ u.pension_contribution_percentage = I(5)
        /\ u.salary_sacrifice = I(100)
        /\ Len(u.monthly_bills) + Len(u.weekly_expenses) \in {0, 2}}

InitSteps ==
    /\ \E user \in StepUsers : self = NewCalculator(user)
    /\ results = None
    /\ raised = None
    /\ pa_args = None
    /\ pa = None
    /\ pa_raised = None
    /\ pa_read = None
    /\ threads = None

CalculatePensionContribution ==
    LET r == _calculate_pension_contribution(self)
    IN  /\ self' = r.self
        /\ raised' = r.raise
        /\ UNCHANGED <<results, pa_args, pa, pa_raised, pa_read, threads>>

CalculateSalarySacrifice ==
    LET r == _calculate_salary_sacrifice(self)
    IN  /\ self' = r.self
        /\ raised' = r.raise
        /\ UNCHANGED <<results, pa_args, pa, pa_raised, pa_read, threads>>

CalculatePersonalAllowance ==
    LET r == _calculate_personal_allowance(self)
    IN  /\ self' = r.self
        /\ raised' = r.raise
        /\ UNCHANGED <<results, pa_args, pa, pa_raised, pa_read, threads>>

CalculateTaxableIncome ==
    LET r == _calculate_taxable_income(self)
    IN  /\ self' = r.self
        /\ raised' = r.raise
        /\ UNCHANGED <<results, pa_args, pa, pa_raised, pa_read, threads>>

CalculateTax ==
    LET r == _calculate_tax(self)
    IN  /\ self' = r.self
        /\ raised' = r.raise
        /\ UNCHANGED <<results, pa_args, pa, pa_raised, pa_read, threads>>

CalculateNiContributions ==
    LET r == _calculate_ni_contributions(self)
    IN  /\ self' = r.self
        /\ raised' = r.raise
        /\ UNCHANGED <<results, pa_args, pa, pa_raised, pa_read, threads>>

CalculateStudentLoanRepayment ==
    LET r == _calculate_student_loan_repayment(self)
    IN  /\ self' = r.self
        /\ raised' = r.raise
        /\ UNCHANGED <<results, pa_args, pa, pa_raised, pa_read, threads>>

CalculateNetIncome ==
    LET r == _calculate_net_income(self)
    IN  /\ self' = r.self
        /\ raised' = r.raise
        /\ UNCHANGED <<results, pa_args, pa, pa_raised, pa_read, threads>>

CalculateSpendableIncome ==
    LET r == _calculate_spendable_income(self)
    IN  /\ self' = r.self
        /\ raised' = r.raise
        /\ UNCHANGED <<results, pa_args, pa, pa_raised, pa_read, threads>>

CalculateSpendableIncomeAfterExpenses ==
    LET r == _calculate_spendable_income_after_expenses(self)
    IN  /\ self' = r.self
        /\ raised' = r.raise
        /\ UNCHANGED <<results, pa_args, pa, pa_raised, pa_read, threads>>

NextSteps ==
    \/ CalculateAll
    \/ GetResults
    \/ CalculatePensionContribution
    \/ CalculateSalarySacrifice
    \/ CalculatePersonalAllowance
    \/ CalculateTaxableIncome
    \/ CalculateTax
    \/ CalculateNiContributions
    \/ CalculateStudentLoanRepayment
    \/ CalculateNetIncome
    \/ CalculateSpendableIncome
    \/ CalculateSpendableIncomeAfterExpenses

SpecSteps == InitSteps /\ [][NextSteps]_vars

------------------------------------------------------------------------------
(* Two calculate_all calls interleaved on one calculator *)

\* The calls sharing the calculator.
Threads == {"A", "B"}

\* The statements of calculate_all, in order.  A method call is one step,
\* except _calculate_taxable_income, which is three: only that method leaves
\* its field in a state other than None or the final value between two of
\* its statements.
Positions ==
    <<"pension_contribution", "salary_sacrifice", "personal_allowance",
      "taxable_income", "taxable_income_raw", "taxable_income_wrap", "tax",
      "ni_contributions", "student_loan_repayment", "net_income",
      "spendable_income", "spendable_income_after_expenses", "done">>

\* The position after position pc.
After(pc) ==
    Positions[1 + CHOOSE i \in 1..(Len(Positions) - 1) : Positions[i] = pc]

\* x is a PeriodAmounts object (it has the attribute annual), not a number.
IsPeriodAmounts(x) == "_annual" \in DOMAIN x

\* The AttributeError of reading .annual on a float.
AttributeError == [type |-> "AttributeError", message |-> "'float' object has no attribute 'annual'"]

\* The TypeError of max(0, p) for a PeriodAmounts p.
TypeError == [type |-> "TypeError", message |-> "'>' not supported between instances of 'PeriodAmounts' and 'int'"]

\* The method calculate_all calls at position pc, for the methods that are
\* one step.
MethodAt(pc, s) ==
    CASE pc = "pension_contribution" -> _calculate_pension_contribution(s)
      [] pc = "salary_sacrifice" -> _calculate_salary_sacrifice(s)
      [] pc = "personal_allowance" -> _calculate_personal_allowance(s)
      [] pc = "ni_contributions" -> _calculate_ni_contributions(s)
      [] pc = "student_loan_repayment" -> _calculate_student_loan_repayment(s)
      [] pc = "net_income" -> _calculate_net_income(s)
      [] pc = "spendable_income" -> _calculate_spendable_income(s)
      [] pc = "spendable_income_after_expenses" ->
             _calculate_spendable_income_after_expenses(s)

\* The first assignment of _calculate_taxable_income: the raw difference,
\* a number, goes into self._taxable_income.
StoreRawTaxableIncome(s) ==
    Bind(_calculate_pension_contribution(s), LAMBDA r1 :
    Bind(_calculate_salary_sacrifice(r1.self), LAMBDA r2 :
    Bind(_calculate_personal_allowance(r2.self), LAMBDA r3 :
    LET pre_tax_deductions == Add(annual(r1.ret), annual(r2.ret))
    IN  Return([r3.self EXCEPT !._taxable_income =
                   Sub(Sub(s.user.gross_salary, pre_tax_deductions), r3.ret)],
               None))))

\* WrapTaxableIncome storing the clamped number itself, not a PeriodAmounts.
WrapTaxableIncome_KeepsNumber(s) ==
    IF IsPeriodAmounts(s._taxable_income)
    THEN Raise(s, TypeError)
    ELSE Return([s EXCEPT !.computed["_taxable_income"] = @ + 1,
                          !._taxable_income = PyMax(I(0), s._taxable_income)],
                None)

\* The rest of _calculate_taxable_income's body: max(0, self._taxable_income)
\* reads the field again, and the result is wrapped and stored.
WrapTaxableIncome(s) ==
    IF IsPeriodAmounts(s._taxable_income)
    THEN Raise(s, TypeError)
    ELSE Return([s EXCEPT !.computed["_taxable_income"] = @ + 1,
                          !._taxable_income =
                              FromAnnual(PyMax(I(0), s._taxable_income)).obj],
                None)

\* _calculate_tax on a calculator whose _taxable_income may hold a number:
\* the nested _calculate_taxable_income() then returns that number and
\* reading its .annual raises.
TaxOnShared(s) ==
    IF s._tax = None /\ ~IsPeriodAmounts(s._taxable_income)
    THEN Raise(s, AttributeError)
    ELSE _calculate_tax(s)

ConcurrentUsers ==
    {u \in SalaryUsers :
        /\ u.gross_salary \in {I(0), I(40000)}
        /\ u.pension_contribution_percentage = I(5)
        /\ u.salary_sacrifice = I(100)}

\* Both calls are about to start on a fresh calculator.
InitConcurrent ==
    /\ \E user \in ConcurrentUsers : self = NewCalculator(user)
    /\ threads = [t \in Threads |->
                     [pc |-> "pension_contribution", raise |-> None]]
    /\ results = None
    /\ raised = None
    /\ pa_args = None
    /\ pa = None
    /\ pa_raised = None
    /\ pa_read = None

\* Thread t is running at position pc.
At(t, pc) == threads[t].pc = pc /\ threads[t].raise = None

\* Thread t goes on after outcome r of its statement: to position next, or
\* it stops where it is with the exception.
GoOn(t, r, next) ==
    /\ self' = r.self
    /\ threads' = [threads EXCEPT ![t] =
                      IF r.raise # None THEN [@ EXCEPT !.raise = r.raise]
                      ELSE [@ EXCEPT !.pc = next]]
    /\ UNCHANGED <<results, raised, pa_args, pa, pa_raised, pa_read>>

\* One of the calls of calculate_all that are a single step.
ThreadCall(t) ==
    /\ threads[t].raise = None
    /\ threads[t].pc \in {"pension_contribution", "salary_sacrifice",
                          "personal_allowance", "ni_contributions",
                          "student_loan_repayment", "net_income",
                          "spendable_income",
                          "spendable_income_after_expenses"}
    /\ GoOn(t, MethodAt(threads[t].pc, self), After(threads[t].pc))

\* "if self._taxable_income is None:" and, when it is not, the return.
ThreadTaxableIncomeCheck(t) ==
    /\ At(t, "taxable_income")
    /\ GoOn(t, Return(self, None),
            IF self._taxable_income = None THEN "taxable_income_raw"
            ELSE "tax")

ThreadTaxableIncomeStoreRaw(t) ==
    /\ At(t, "taxable_income_raw")
    /\ GoOn(t, StoreRawTaxableIncome(self), "taxable_income_wrap")

ThreadTaxableIncomeWrap(t) ==
    /\ At(t, "taxable_income_wrap")
    /\ GoOn(t, WrapTaxableIncome(self), "tax")

ThreadTax(t) ==
    /\ At(t, "tax")
    /\ GoOn(t, TaxOnShared(self), "ni_contributions")

NextConcurrent ==
    \E t \in Threads :
        \/ ThreadCall(t)
        \/ ThreadTaxableIncomeCheck(t)
        \/ ThreadTaxableIncomeStoreRaw(t)
        \/ ThreadTaxableIncomeWrap(t)
        \/ ThreadTax(t)

SpecConcurrent == InitConcurrent /\ [][NextConcurrent]_vars

------------------------------------------------------------------------------
(* PeriodAmounts on its own: construction and the property reads *)

\* Amounts passed to the constructor: multiples of 100 up to 100 x
\* MaxHundreds, and one amount with pence.
MaxHundreds == 12

Amounts == {I(100 * k) : k \in 0..MaxHundreds} \cup {Q(2301, 100)}

WeeksPerYearChoices == {WEEKS_PER_YEAR, I(52)}

InitPeriodAmounts ==
    /\ self = NewCalculator(User(I(40000), <<>>, <<>>, I(0), I(0), "No Plan"))
    /\ results = None
    /\ raised = None
    /\ pa_args = None
    /\ pa = None
    /\ pa_raised = None
    /\ pa_read = None
    /\ threads = None

\* pa = PeriodAmounts(annual=a, monthly=m, weekly=w, weeks_per_year=wpy),
\* any of a, m, w left out: the one constructor call of the object's life.
Construct ==
    \E a \in Amounts \cup {None}, m \in Amounts \cup {None},
       w \in Amounts \cup {None}, wpy \in WeeksPerYearChoices :
        LET r == PeriodAmounts(a, m, w, wpy)
        IN  /\ pa_args = None
            /\ pa_args' = [annual |-> a, monthly |-> m, weekly |-> w,
                           weeks_per_year |-> wpy]
            /\ pa' = r.obj
            /\ pa_raised' = r.raise
            /\ pa_read' = None
            /\ UNCHANGED <<self, results, raised, threads>>

\* Reading a property of the object built.
ReadAnnual ==
    /\ pa # None
    /\ pa_read' = [prop |-> "annual", value |-> annual(pa)]
    /\ UNCHANGED <<self, results, raised, pa_args, pa, pa_raised, threads>>

ReadMonthly ==
    /\ pa # None
    /\ pa_read' = [prop |-> "monthly", value |-> monthly(pa)]
    /\ UNCHANGED <<self, results, raised, pa_args, pa, pa_raised, threads>>

ReadWeekly ==
    /\ pa # None
    /\ pa_read' = [prop |-> "weekly", value |-> weekly(pa)]
    /\ UNCHANGED <<self, results, raised, pa_args, pa, pa_raised, threads>>

NextPeriodAmounts ==
    \/ Construct
    \/ ReadAnnual
    \/ ReadMonthly
    \/ ReadWeekly

SpecPeriodAmounts == InitPeriodAmounts /\ [][NextPeriodAmounts]_vars

------------------------------------------------------------------------------
(* The claims.  Expected values are written from the rules in closed form,  *)
(* with the mathematical maximum and minimum of finite numbers.             *)

Max(x, y) == IF Lt(x, y) THEN y ELSE x

Min(x, y) == IF Lt(y, x) THEN y ELSE x

Zero == I(0)

SupportedPlan == self.user.student_loan_plan \in {"Plan 2", "No Plan"}

\* C1: for a profile with a supported plan, once Net Income is cached its
\* annual value is gross salary minus Pension Contribution, Salary
\* Sacrifice, Tax, NI Contributions and Student Loan Repayment, and the
\* entries of the mapping get_results returned satisfy the same identity.
C1_NetIncomeIdentity ==
    /\ (SupportedPlan /\ self._net_income # None) =>
           annual(self._net_income) =
               Sub(Sub(Sub(Sub(Sub(self.user.gross_salary,
                                   annual(self._pension_contribution)),
                               annual(self._salary_sacrifice)),
                           annual(self._tax)),
                       annual(self._ni_contributions)),
                   annual(self._student_loan_repayment))
    /\ results # None =>
           annual(results["Net Income"]) =
               Sub(Sub(Sub(Sub(Sub(annual(results["Gross Salary"]),
                                   annual(results["Pension Contribution"])),
                               annual(results["Salary Sacrifice"])),
                           annual(results["Tax"])),
                       annual(results["NI Contributions"])),
                   annual(results["Student Loan Repayment"]))

\* A mapping was returned in which every one of the five deductions is
\* positive.
C1_Witness ==
    /\ results # None
    /\ \A item \in {"Pension Contribution", "Salary Sacrifice", "Tax",
                    "NI Contributions", "Student Loan Repayment"} :
           Gt(annual(results[item]), Zero)

C3_PersonalAllowanceTaper ==
    self._personal_allowance # None =>
        LET g == self.user.gross_salary
            P == self._personal_allowance
        IN  /\ Lt(g, I(100000)) => P = I(12570)
            /\ Ge(g, I(100000)) =>
                   P = Max(Zero, Sub(I(12570), Div(Sub(g, I(100000)), I(2))))
            /\ Ge(g, I(125140)) => P = Zero
            /\ \A g2 \in GrossSalaries :
                   Le(g, g2) => Le(PersonalAllowance(g2), P)

\* The allowance of a 150,000 salary with a pension and a salary sacrifice
\* is 0.
C3_Witness ==
    /\ self._personal_allowance = Zero
    /\ self.user.gross_salary = I(150000)
    /\ self.user.pension_contribution_percentage # Zero
    /\ self.user.salary_sacrifice # Zero

\* The tax on taxable income T under allowance P, band by band: the part of
\* T in each band times the band's rate.
ExpectedTax(T, P) ==
    LET B1 == Sub(I(50270), P)
        B2 == Sub(I(125140), P)
    IN  Add(Add(Mul(Q(20, 100), Min(T, B1)),
                Mul(Q(40, 100), Max(Zero, Sub(Min(T, B2), B1)))),
            Mul(Q(45, 100), Max(Zero, Sub(T, B2))))

\* C4: the tax cached for taxable income T and allowance P is 20% of the
\* part of T up to 50,270 - P, 40% of the part between 50,270 - P and
\* 125,140 - P and 45% of the part above; it is 0 when T is 0.
C4_TaxByBands ==
    self._tax # None =>
        LET T == annual(self._taxable_income)
            P == self._personal_allowance
        IN  /\ annual(self._tax) = ExpectedTax(T, P)
            /\ T = Zero => annual(self._tax) = Zero

\* Tax was computed for a taxable income that reaches the second band under
\* a tapered, positive allowance.
C4_Witness ==
    /\ self._tax # None
    /\ Gt(annual(self._taxable_income),
          Sub(I(50270), self._personal_allowance))
    /\ Gt(self._personal_allowance, Zero)
    /\ Lt(self._personal_allowance, I(12570))

\* Increments of taxable income tried from each computed tax.
Increments == {Q(1, 2), I(1), I(3)}

\* C5: with the allowance P fixed, raising the taxable income T by d never
\* lowers the tax and never raises it by more than 45% of d (no jump), and
\* when no band boundary lies strictly between T and T + d the increase is
\* exactly 20%, 40% or 45% of d.
C5_TaxMonotoneContinuous ==
    self._tax # None =>
        LET T == annual(self._taxable_income)
            P == self._personal_allowance
            Between(b, d) == Lt(T, b) /\ Lt(b, Add(T, d))
        IN  \A d \in Increments :
                LET inc == Sub(TaxLoop(1, Add(T, d), Zero, Zero, P),
                               annual(self._tax))
                IN  /\ Ge(inc, Zero)
                    /\ Le(inc, Mul(Q(45, 100), d))
                    /\ (~Between(Sub(I(50270), P), d)
                        /\ ~Between(Sub(I(125140), P), d)) =>
                           inc \in {Mul(Q(20, 100), d), Mul(Q(40, 100), d),
                                    Mul(Q(45, 100), d)}

\* Tax was computed for a taxable income exactly at the first band boundary.
C5_Witness ==
    /\ self._tax # None
    /\ annual(self._taxable_income) = Sub(I(50270), self._personal_allowance)

\* C6: NI contributions are a function of the gross salary g alone: 0 up to
\* 12,576, 8% of g - 12,576 up to 50,268, and 8% of 50,268 - 12,576 plus 2%
\* of g - 50,268 above.
C6_NiContributions ==
    self._ni_contributions # None =>
        LET g == self.user.gross_salary
        IN  annual(self._ni_contributions) =
                IF Le(g, I(12576)) THEN Zero
                ELSE IF Le(g, I(50268))
                     THEN Mul(Q(8, 100), Sub(g, I(12576)))
                ELSE Add(Mul(Q(8, 100), I(50268 - 12576)),
                         Mul(Q(2, 100), Sub(g, I(50268))))

\* NI was computed for a salary above the upper threshold, with a pension
\* and a salary sacrifice.
C6_Witness ==
    /\ self._ni_contributions # None
    /\ Gt(self.user.gross_salary, I(50268))
    /\ self.user.pension_contribution_percentage # Zero
    /\ self.user.salary_sacrifice # Zero

\* C7: under Plan 2 the student loan repayment is 0 up to a gross salary of
\* 27,295 and 9% of the excess above it; under No Plan it is 0 for every
\* gross salary.
C7_StudentLoanRepayment ==
    self._student_loan_repayment # None =>
        LET g == self.user.gross_salary
            plan == self.user.student_loan_plan
        IN  /\ plan = "Plan 2" =>
                   annual(self._student_loan_repayment) =
                       IF Le(g, I(27295)) THEN Zero
                       ELSE Mul(Q(9, 100), Sub(g, I(27295)))
            /\ plan = "No Plan" =>
                   annual(self._student_loan_repayment) = Zero
            /\ plan \in {"Plan 2", "No Plan"}

\* The repayment was computed under No Plan for a salary above the Plan 2
\* threshold.
C7_Witness ==
    /\ self._student_loan_repayment # None
    /\ self.user.student_loan_plan = "No Plan"
    /\ Gt(self.user.gross_salary, I(27295))

\* A call has been made on the calculator.
Called == self # NewCalculator(self.user)

\* C8 (as stated): with a plan name outside the configured set, calculate_all
\* and get_results fail with an UnsupportedPlanError.
C8_RaisesUnsupportedPlanError ==
    (~SupportedPlan /\ Called) =>
        /\ raised # None
        /\ raised.type = "UnsupportedPlanError"

\* C8 (amended): with a plan name outside the configured set, calculate_all
\* and get_results fail with a ValueError reporting the unsupported plan;
\* no repayment is cached and no mapping is returned.
C8_RaisesValueError ==
    (~SupportedPlan /\ Called) =>
        /\ raised = ValueError(UnsupportedPlanMessage)
        /\ self._student_loan_repayment = None
        /\ results = None

\* A call on a calculator whose plan is "Plan X" has raised.
C8_Witness ==
    /\ self.user.student_loan_plan = "Plan X"
    /\ Called
    /\ raised # None

\* How many of annual, monthly, weekly the constructor call supplied.
Supplied ==
    (IF pa_args.annual # None THEN 1 ELSE 0)
    + (IF pa_args.monthly # None THEN 1 ELSE 0)
    + (IF pa_args.weekly # None THEN 1 ELSE 0)

\* C9 (as stated): the constructor call builds an object exactly when one of
\* annual, monthly, weekly is supplied; otherwise it fails with a
\* ConfigurationError and builds nothing.
C9_RaisesConfigurationError ==
    pa_args # None =>
        /\ Supplied = 1 => (pa # None /\ pa_raised = None)
        /\ Supplied # 1 =>
               /\ pa = None
               /\ pa_raised # None
               /\ pa_raised.type = "ConfigurationError"

\* C9 (amended): the constructor call builds an object exactly when one of
\* annual, monthly, weekly is supplied; otherwise it fails with a ValueError
\* ("Exactly one of ... must be provided") and builds nothing.
C9_RaisesValueError ==
    pa_args # None =>
        /\ Supplied = 1 => (pa # None /\ pa_raised = None)
        /\ Supplied # 1 =>
               /\ pa = None
               /\ pa_raised = ValueError(ExactlyOneMessage)

\* A call supplying both annual and monthly has raised.
C9_Witness ==
    /\ pa_args # None
    /\ pa_args.annual # None
    /\ pa_args.monthly # None
    /\ pa_args.weekly = None
    /\ pa_raised # None

\* C10: the object stores the annual value of the amount it was built from
\* (a, 12 x m, or w x weeks_per_year) and keeps it through every read;
\* annual reads it, monthly reads a twelfth of it and weekly reads it
\* divided by weeks_per_year, so that an object built from a monthly or
\* weekly amount reads that amount back, and annual 1200 reads monthly 100.
C10_PeriodViews ==
    pa # None =>
        /\ pa._annual =
               IF pa_args.annual # None THEN pa_args.annual
               ELSE IF pa_args.monthly # None
                    THEN Mul(I(12), pa_args.monthly)
               ELSE Mul(pa_args.weekly, pa_args.weeks_per_year)
        /\ pa._weeks_per_year = pa_args.weeks_per_year
        /\ pa_read # None =>
               /\ pa_read.prop = "annual" => pa_read.value = pa._annual
               /\ pa_read.prop = "monthly" =>
                      /\ Mul(I(12), pa_read.value) = pa._annual
                      /\ pa_args.monthly # None =>
                             pa_read.value = pa_args.monthly
                      /\ pa_args.annual = I(1200) => pa_read.value = I(100)
               /\ pa_read.prop = "weekly" =>
                      /\ Mul(pa_read.value, pa_args.weeks_per_year) =
                             pa._annual
                      /\ pa_args.weekly # None =>
                             pa_read.value = pa_args.weekly

\* An object built from a weekly amount with 52 weeks per year has had its
\* weekly property read.
C10_Witness ==
    /\ pa_read # None
    /\ pa_read.prop = "weekly"
    /\ pa_args.weekly # None
    /\ pa_args.weekly # Zero
    /\ pa_args.weeks_per_year = I(52)

------------------------------------------------------------------------------
(* Memoization and the results mapping *)

\* Every field of calculator s that calculate_all sets is set (_bills and
\* _expenses are set together with their totals).
Complete(s) ==
    /\ \A f \in MemoFields : s[f] # None
    /\ s._total_bills # None
    /\ s._total_expenses # None

\* C11: once calculate_all has completed, a further calculate_all or
\* get_results leaves the calculator as it is: every cached field keeps its
\* value and no method body runs again (the computed counts stay).
C11_MemoizedAfterCalculateAll ==
    [][Complete(self) => self' = self]_vars

\* A mapping was returned by a calculator on which every field had been
\* computed, each exactly once.
C11_Witness ==
    /\ Complete(self)
    /\ \A f \in MemoFields : self.computed[f] = 1
    /\ results # None
    /\ self.user.monthly_bills # <<>>

\* C12: whenever get_results has returned, the mapping has exactly the 13
\* line items and each of them is a PeriodAmounts, none unset, whichever
\* methods ran on the calculator before.
C12_ResultsAllComputed ==
    results # None =>
        /\ DOMAIN results = ResultItems
        /\ \A item \in ResultItems : results[item] # None

\* C13: a calculator on which a call has failed has returned no mapping, and
\* every later calculate_all or get_results fails again, returns no mapping,
\* and leaves the fields cached before the failure as they are.
C13_AllOrNothing ==
    /\ [](raised # None => results = None)
    /\ [][raised # None =>
             /\ raised' # None
             /\ results' = None
             /\ self' = self]_vars

\* A call failed after the fields up to the NI contributions had been cached.
C13_Witness ==
    /\ raised # None
    /\ self._ni_contributions # None
    /\ self._net_income = None
    /\ results = None

------------------------------------------------------------------------------
(* Bills, expenses and spendable income *)

\* The sum of the amounts of sequence xs taken in the order given by the
\* permutation perm of its indices.
RECURSIVE SumInOrder(_, _, _)
SumInOrder(xs, perm, k) ==
    IF k = 0 THEN Zero ELSE Add(SumInOrder(xs, perm, k - 1), xs[perm[k]])

\* C14: the bills total is 12 times the sum of the monthly bills and the
\* expenses total is weeks_per_year times the sum of the weekly expenses, in
\* whatever order the entries are added; spendable income is net income
\* less the bills total; spendable income after expenses holds the weekly
\* difference of spendable income and expenses total, and its annual value
\* is net income less bills total less expenses total.
C14_BillsExpensesSpendable ==
    self._spendable_income_after_expenses # None =>
        LET bills == self.user.monthly_bills
            expenses == self.user.weekly_expenses
            net == annual(self._net_income)
            bills_total == annual(self._total_bills)
            expenses_total == annual(self._total_expenses)
        IN  /\ \A perm \in Permutations(1..Len(bills)) :
                   bills_total = Mul(I(12), SumInOrder(bills, perm, Len(bills)))
            /\ \A perm \in Permutations(1..Len(expenses)) :
                   expenses_total =
                       Mul(WEEKS_PER_YEAR,
                           SumInOrder(expenses, perm, Len(expenses)))
            /\ annual(self._spendable_income) = Sub(net, bills_total)
            /\ weekly(self._spendable_income_after_expenses) =
                   Sub(weekly(self._spendable_income),
                       weekly(self._total_expenses))
            /\ annual(self._spendable_income_after_expenses) =
                   Sub(Sub(net, bills_total), expenses_total)

\* Everything was computed for a profile with two different bills and two
\* different expenses.
C14_Witness ==
    /\ self._spendable_income_after_expenses # None
    /\ self.user.monthly_bills = <<I(500), I(120)>>
    /\ self.user.weekly_expenses = <<I(30), I(50)>>
    /\ annual(self._total_bills) = I(7440)

------------------------------------------------------------------------------
(* Sharing a calculator *)

\* The call other than t.
Other(t) == CHOOSE u \in Threads : u # t

\* C15: sharing is what makes a call fail.  With a supported plan a call
\* fails only on meeting the taxable income the other call has in hand:
\* either _calculate_tax reads the raw number the other call stored and has
\* not yet wrapped (AttributeError), or max() reads the PeriodAmounts the
\* other call stored in between (TypeError); in both cases the other call
\* has gone past its own test of the field.  That such a failure happens
\* is C15_Witness.
C15_FailsOnUnfinishedField ==
    \A t \in Threads :
        (SupportedPlan /\ threads[t].raise # None) =>
            /\ threads[Other(t)].pc \notin
                   {"pension_contribution", "salary_sacrifice",
                    "personal_allowance", "taxable_income"}
            /\ \/ /\ threads[t].pc = "tax"
                  /\ threads[t].raise = AttributeError
               \/ /\ threads[t].pc = "taxable_income_wrap"
                  /\ threads[t].raise = TypeError

\* Call A has failed in _calculate_tax on the raw, negative taxable income
\* that call B has stored and not yet clamped and wrapped.
C15_Witness ==
    /\ SupportedPlan
    /\ threads["A"].pc = "tax"
    /\ threads["A"].raise = AttributeError
    /\ threads["B"].pc = "taxable_income_wrap"
    /\ threads["B"].raise = None
    /\ ~IsPeriodAmounts(self._taxable_income)
    /\ Lt(self._taxable_income, Zero)

------------------------------------------------------------------------------
(* Dependency order *)

\* The fields the methods assign, other than the lists _bills and _expenses
\* (assigned together with their totals).
CachedFields == MemoFields \cup {"_total_bills", "_total_expenses"}

------------------------------------------------------------------------------
(* Signs *)

\* Every amount of profile u is non-negative, as the form requires.
NonNegativeProfile(u) ==
    /\ Ge(u.gross_salary, Zero)
    /\ Ge(u.pension_contribution_percentage, Zero)
    /\ Ge(u.salary_sacrifice, Zero)
    /\ \A i \in 1..Len(u.monthly_bills) : Ge(u.monthly_bills[i], Zero)
    /\ \A i \in 1..Len(u.weekly_expenses) : Ge(u.weekly_expenses[i], Zero)

\* Field f of the calculator is unset or holds a non-negative annual amount.
NonNegativeField(f) == self[f] # None => Ge(annual(self[f]), Zero)

\* C17: for a profile of non-negative amounts every deduction computed is
\* non-negative, net income is at most the gross salary, spendable income
\* at most net income, and spendable income after expenses at most
\* spendable income.
C17_DeductionsNonNegative ==
    NonNegativeProfile(self.user) =>
        /\ \A f \in {"_pension_contribution", "_salary_sacrifice", "_tax",
                      "_ni_contributions", "_student_loan_repayment"} :
               NonNegativeField(f)
        /\ self._net_income # None =>
               Le(annual(self._net_income), self.user.gross_salary)
        /\ self._spendable_income # None =>
               Le(annual(self._spendable_income), annual(self._net_income))
        /\ self._spendable_income_after_expenses # None =>
               Le(annual(self._spendable_income_after_expenses),
                  annual(self._spendable_income))

\* Everything was computed for a salary of 0 with a salary sacrifice, bills
\* and expenses: no tax, NI or repayment, and a negative net income.
C17_Witness ==
    /\ NonNegativeProfile(self.user)
    /\ self.user.gross_salary = Zero
    /\ self.user.weekly_expenses # <<>>
    /\ self._spendable_income_after_expenses # None
    /\ annual(self._ni_contributions) = Zero
    /\ Lt(annual(self._net_income), Zero)

====
